---- MODULE Spec2Model ----
(***************************************************************************)
(* TestWare: the collaborative session core of the TestwareDashboard       *)
(* component (session create / join / leave, participant presence, the     *)
(* replicated test-case list and its full-document replace writes).        *)
(*                                                                         *)
(* Every browser tab is a client running one TestwareDashboard instance.   *)
(* The clients share one Firestore: the "sessions" collection and, under   *)
(* each session, a "participants" sub-collection.  Every awaited Firestore *)
(* call is a request in flight (net); its completion, with either outcome, *)
(* runs the rest of the async handler that awaited it.                     *)
(***************************************************************************)
EXTENDS Integers, Sequences, FiniteSets, Bags, TLC

\* ------------------------------------------------------------------ bounds
MaxInFlight == 3    \* awaited calls one client may have pending at a time
MaxParts == 3       \* participant documents ever added, the seeded one included
MaxCreates == 2     \* setDoc calls ever issued by handleCreateSession
MaxCases == 2       \* length of a test-case list
MaxWrites == 1      \* file reads and replace writes one client may have pending

\* ------------------------------------------------------------ basic values
Clients == {"c1", "c2"}
Null == "null"
\* A null session code (a falsy string) and a null participant id.
NoCode == <<>>
NoPid == 0

\* The identity Firebase Auth yields for the signed-in user of a tab.
Email(c) == IF c = "c1" THEN "ana@qa" ELSE "bob@qa"

\* An alphabet that keeps the letter O and the digit 0.
chars_WithO == <<"A","B","C","D","E","F","G","H","I","J","K","L","M","N","O","P","Q","R",
                 "S","T","U","V","W","X","Y","Z","0","1","2","3","4","5","6","7","8","9">>

\* Strings are sequences of one-character strings.
chars == <<"A","B","C","D","E","F","G","H","I","J","K","L","M","N","P","Q","R",
           "S","T","U","V","W","X","Y","Z","1","2","3","4","5","6","7","8","9">>
CodeLen == 6
Lower == <<"a","b","c","d","e","f","g","h","i","j","k","l","m","n","o","p","q",
           "r","s","t","u","v","w","x","y","z">>
Upper == <<"A","B","C","D","E","F","G","H","I","J","K","L","M","N","O","P","Q",
           "R","S","T","U","V","W","X","Y","Z">>

Range(s) == {s[i] : i \in 1..Len(s)}

\* generateSessionCode draws CodeLen characters of chars at random.  The model
\* draws from a few six-character texts those that it can return.
CodeA == <<"A","B","3","X","7","K">>
CodeB == <<"Q","Z","9","M","2","P">>
CodeC == <<"I","1","L","1","A","M">>
CodeO == <<"O","0","L","0","A","M">>
generateSessionCode ==
    {code \in {CodeA, CodeB, CodeC, CodeO} :
        Len(code) = CodeLen /\ Range(code) \subseteq Range(chars)}

\* String.prototype.toUpperCase, character by character.
upperChar(ch) ==
    IF \E i \in 1..Len(Lower) : Lower[i] = ch
    THEN Upper[CHOOSE i \in 1..Len(Lower) : Lower[i] = ch]
    ELSE ch
toUpperCase(s) == [i \in 1..Len(s) |-> upperChar(s[i])]

\* String.prototype.trim: drops leading and trailing blanks.
RECURSIVE trimStart(_)
trimStart(s) == IF s # <<>> /\ Head(s) = " " THEN trimStart(Tail(s)) ELSE s
RECURSIVE trimEnd(_)
trimEnd(s) ==
    IF s # <<>> /\ s[Len(s)] = " " THEN trimEnd(SubSeq(s, 1, Len(s) - 1)) ELSE s
trim(s) == trimEnd(trimStart(s))

\* What a user may type in the session-code input (maxLength 6).
InputTexts ==
    { <<>>, <<" "," ">>,
      <<"a","b","3","x","7","k">>, CodeA, CodeB,
      <<" ","A","B","3"," ">>, <<"Z","Z","Z","Z","Z","Z">> }

\* Document ids of the "sessions" collection the model can address.
DocIds == generateSessionCode \cup ({toUpperCase(trim(t)) : t \in InputTexts} \ {<<>>})

\* ------------------------------------------------------------- test cases
Statuses == {"Aprobado", "Fallido", "N/A", "Pendiente"}
UUIDs == {"id1", "id2"}

\* A TestCase of lib/types.ts; while the optional fields are absent updatedBy
\* is Null and updatedAt is 0 (a clock reading is positive).
TestCase(id, proceso, estado, comentarios, evidencia, updatedBy) ==
    [id |-> id, proceso |-> proceso, estado |-> estado,
     comentarios |-> comentarios, evidencia |-> evidencia, updatedBy |-> updatedBy,
     updatedAt |-> 0]

\* Rows of an uploaded JSON file; estado "" stands for a row without the field.
RawPending == [proceso |-> "P1", estado |-> "", comentarios |-> "", evidencia |-> ""]
\* A picked file: text that JSON.parse turns into an array of rows, or not.
File(valid, rows) == [valid |-> valid, rows |-> rows]

\* ---------------------------------------------------------------- Firestore
NoDoc == [exists |-> FALSE, testCases |-> <<>>, owner |-> Null, createdAt |-> 0]
SessionDoc(cases, owner, at) ==
    [exists |-> TRUE, testCases |-> cases, owner |-> owner, createdAt |-> at]
ParticipantDoc(code, email, role) ==
    [code |-> code, email |-> email, role |-> role, online |-> TRUE]

\* What is left of a participant document that has been deleted: the id is
\* not given out again, and an updateDoc of it rejects (not-found).
NoEntry == [code |-> NoCode, email |-> Null, role |-> Null, online |-> FALSE]

\* An awaited call in flight, with what the awaiting closure has captured.
Req(op, c, code, pid, role, cases, file, cont) ==
    [op |-> op, c |-> c, code |-> code, pid |-> pid, role |-> role,
     cases |-> cases, file |-> file, cont |-> cont]
NoFile == File(FALSE, <<>>)

VARIABLES
    sessions,         \* "sessions" collection: document id -> document
    participantDocs,  \* all "participants" documents, in creation order; the index is the id
    now,              \* server clock: the number of session documents written by setDoc
    net,              \* bag of awaited calls in flight
    authUser,         \* Firebase Auth identity of each tab
    ui,               \* React state and refs of each TestwareDashboard instance
    sub,              \* listeners attached by the subscription effect of each instance
    routeTestCases,   \* the in-memory list of api/test-cases/route.ts
    routeResponse,    \* the response the route has sent last
    lastEvent         \* the handler step taken last and the toast it raised

vars == <<sessions, participantDocs, now, net, authUser, ui, sub,
          routeTestCases, routeResponse, lastEvent>>

\* useState / useRef initial values of TestwareDashboard.
InitialUi ==
    [mounted |-> TRUE, user |-> Null, sessionCode |-> NoCode, isLoadingSession |-> FALSE,
     testCases |-> <<>>, participants |-> <<>>, participantIdRef |-> NoPid,
     filterProcess |-> "all", filterStatus |-> "all",
     isViewerMode |-> FALSE, viewerFilter |-> "all"]

NoSub == [code |-> NoCode, docDue |-> FALSE, partsDue |-> FALSE, docDead |-> FALSE]
NoToast == "none"
\* arg is what the step was called with or found (the role asked for, whether
\* the tab was already out of every session), "" where nothing is recorded.
Event(c, op, arg, toast) == [c |-> c, op |-> op, arg |-> arg, toast |-> toast]

\* ------------------------------------------------------------------ helpers
Pending(c) == {r \in BagToSet(net) : r.c = c}
InFlight(c) == BagCardinality([r \in Pending(c) |-> net[r]])
CountOp(ops) ==
    BagCardinality([r \in {q \in BagToSet(net) : q.op \in ops} |-> net[r]])
Send(r) == net (+) SetToBag({r})
Drop(r) == net (-) SetToBag({r})

\* setState of an unmounted component changes nothing.
SetState(c, new) == IF ui[c].mounted THEN [ui EXCEPT ![c] = new] ELSE ui

\* A store that pushes no snapshot when a document changes.
DocChanged_NoPush(code) == sub

\* A snapshot is due at every listener attached to a document that changed.
DocChanged(code) ==
    [c \in Clients |-> IF sub[c].code = code THEN [sub[c] EXCEPT !.docDue = TRUE] ELSE sub[c]]
PartsChanged(code) ==
    [c \in Clients |-> IF sub[c].code = code THEN [sub[c] EXCEPT !.partsDue = TRUE] ELSE sub[c]]

\* The page is rendered past the auth spinner, and the effects of the last
\* render have run (React flushes them before it handles a user event).
CanClick(c) ==
    /\ ui[c].mounted
    /\ ui[c].user # Null
    /\ sub[c].code = ui[c].sessionCode
    /\ InFlight(c) < MaxInFlight
\* The tab may start one more file read or replace write.
CanWrite(c) ==
    BagCardinality([r \in {q \in Pending(c) : q.op \in {"readFile", "readSheet", "updateDoc"}} |-> net[r]])
       < MaxWrites
OnJoinScreen(c) == CanClick(c) /\ ui[c].sessionCode = NoCode
InSessionView(c) == CanClick(c) /\ ui[c].sessionCode # NoCode
EditorControls(c) == InSessionView(c) /\ ~ui[c].isViewerMode

\* ---------------------------------------------------------- leaving a session
\* A cleanup that flips the viewer flag where the code clears it.
LeaveReset_Toggle(st) ==
    [st EXCEPT !.sessionCode = NoCode, !.testCases = <<>>, !.participants = <<>>,
               !.participantIdRef = NoPid, !.isViewerMode = ~@, !.viewerFilter = "all"]

\* The state leaveSessionCleanup sets after its awaited write (lines 160-166).
LeaveReset(st) ==
    [st EXCEPT !.sessionCode = NoCode, !.testCases = <<>>, !.participants = <<>>,
               !.participantIdRef = NoPid, !.isViewerMode = FALSE, !.viewerFilter = "all"]

\* The tab is in no session: what leaveSessionCleanup leaves behind.
NoSession(st) ==
    /\ st.sessionCode = NoCode /\ st.testCases = <<>> /\ st.participants = <<>>
    /\ st.participantIdRef = NoPid /\ ~st.isViewerMode /\ st.viewerFilter = "all"

\* What a call of leaveSessionCleanup does at once: it awaits the mark-offline
\* write, or it runs to its end in a tab that was (wasOut) or was not (wasIn)
\* in the no-session state already.
LeaveCall(c, code) ==
    IF code # NoCode /\ ui[c].participantIdRef # NoPid THEN "await"
    ELSE IF NoSession(ui[c]) THEN "wasOut" ELSE "wasIn"

\* leaveSessionCleanup as the closure of a render whose sessionCode was code:
\* with a session and a participant handle it awaits the mark-offline write,
\* otherwise it runs to its end at once.  cont is what the caller does next.
\* st is the state of the tab with the updates the caller has batched.
leaveSessionCleanup(c, code, cont, st) ==
    IF code # NoCode /\ ui[c].participantIdRef # NoPid
    THEN /\ net' = Send(Req("markOffline", c, code, ui[c].participantIdRef, Null, <<>>, NoFile, cont))
         /\ ui' = SetState(c, st)
    ELSE /\ ui' = SetState(c, LeaveReset(st))
         /\ net' = IF cont = "logout"
                   THEN Send(Req("signOut", c, NoCode, NoPid, Null, <<>>, NoFile, cont))
                   ELSE net

\* "Terminar sesión" in the session view.
handleLeaveSession(c) ==
    /\ InSessionView(c)
    /\ leaveSessionCleanup(c, ui[c].sessionCode, "leave", ui[c])
    /\ lastEvent' = Event(c, "handleLeaveSession", LeaveCall(c, ui[c].sessionCode), NoToast)
    /\ UNCHANGED <<routeTestCases, routeResponse, sessions, participantDocs, now, authUser, sub>>

\* "Cerrar sesión", offered on the join screen and in the session view.
handleLogout(c) ==
    /\ CanClick(c)
    /\ leaveSessionCleanup(c, ui[c].sessionCode, "logout", ui[c])
    /\ lastEvent' = Event(c, "handleLogout", LeaveCall(c, ui[c].sessionCode), NoToast)
    /\ UNCHANGED <<routeTestCases, routeResponse, sessions, participantDocs, now, authUser, sub>>

\* A cleanup without the catch: a rejected write ends it before the resets.
MarkOfflineDone_NoCatch(r, ok) ==
    LET done == ok /\ participantDocs[r.pid] # NoEntry IN
    /\ BagIn(r, net) /\ r.op = "markOffline"
    /\ participantDocs' = IF done THEN [participantDocs EXCEPT ![r.pid].online = FALSE]
                          ELSE participantDocs
    /\ sub' = IF done /\ participantDocs[r.pid].online
              THEN PartsChanged(participantDocs[r.pid].code) ELSE sub
    /\ ui' = IF done /\ r.cont # "unload" THEN SetState(r.c, LeaveReset(ui[r.c])) ELSE ui
    /\ net' = IF r.cont = "logout" /\ done
              THEN Drop(r) (+) SetToBag({Req("signOut", r.c, NoCode, NoPid, Null, <<>>, NoFile, r.cont)})
              ELSE Drop(r)
    /\ lastEvent' = Event(r.c, IF done THEN "markOffline:ok" ELSE "markOffline:error",
                           IF NoSession(ui[r.c]) THEN "wasOut" ELSE "wasIn", NoToast)
    /\ UNCHANGED <<routeTestCases, routeResponse, sessions, now, authUser>>

\* A write that flips the online flag where the code clears it.
MarkOfflineDone_Toggle(r, ok) ==
    LET done == ok /\ participantDocs[r.pid] # NoEntry IN
    /\ BagIn(r, net) /\ r.op = "markOffline"
    /\ participantDocs' = IF done THEN [participantDocs EXCEPT ![r.pid].online = ~@]
                          ELSE participantDocs
    /\ sub' = IF done THEN PartsChanged(participantDocs[r.pid].code) ELSE sub
    /\ ui' = IF r.cont # "unload" THEN SetState(r.c, LeaveReset(ui[r.c])) ELSE ui
    /\ net' = IF r.cont = "logout"
              THEN Drop(r) (+) SetToBag({Req("signOut", r.c, NoCode, NoPid, Null, <<>>, NoFile, r.cont)})
              ELSE Drop(r)
    /\ lastEvent' = Event(r.c, IF done THEN "markOffline:ok" ELSE "markOffline:error",
                           IF NoSession(ui[r.c]) THEN "wasOut" ELSE "wasIn", NoToast)
    /\ UNCHANGED <<routeTestCases, routeResponse, sessions, now, authUser>>

\* updateDoc(participantDocRef, {online: false}) settles; it rejects when the
\* document does not exist.  In leaveSessionCleanup the catch swallows a
\* rejection and the rest of the function runs either way; handleBeforeUnload
\* (cont "unload") awaits nothing and has nothing left to run.
MarkOfflineDone(r, ok) ==
    LET done == ok /\ participantDocs[r.pid] # NoEntry IN
    /\ BagIn(r, net) /\ r.op = "markOffline"
    /\ participantDocs' = IF done THEN [participantDocs EXCEPT ![r.pid].online = FALSE]
                          ELSE participantDocs
    /\ sub' = IF done /\ participantDocs[r.pid].online
              THEN PartsChanged(participantDocs[r.pid].code) ELSE sub
    /\ ui' = IF r.cont # "unload" THEN SetState(r.c, LeaveReset(ui[r.c])) ELSE ui
    /\ net' = IF r.cont = "logout"
              THEN Drop(r) (+) SetToBag({Req("signOut", r.c, NoCode, NoPid, Null, <<>>, NoFile, r.cont)})
              ELSE Drop(r)
    /\ lastEvent' = Event(r.c, IF done THEN "markOffline:ok" ELSE "markOffline:error",
                           IF NoSession(ui[r.c]) THEN "wasOut" ELSE "wasIn", NoToast)
    /\ UNCHANGED <<routeTestCases, routeResponse, sessions, now, authUser>>

\* The beforeunload listener (lines 187-192): with a session and a participant
\* handle it starts the mark-offline write and awaits nothing; the page
\* unloads, which ends its listeners and its pending continuations.
handleBeforeUnload(c) ==
    /\ ui[c].mounted /\ sub[c].code = ui[c].sessionCode /\ InFlight(c) < MaxInFlight
    /\ net' = IF ui[c].sessionCode # NoCode /\ ui[c].participantIdRef # NoPid
              THEN Send(Req("markOffline", c, ui[c].sessionCode, ui[c].participantIdRef,
                            Null, <<>>, NoFile, "unload"))
              ELSE net
    /\ ui' = [ui EXCEPT ![c].mounted = FALSE]
    /\ sub' = [sub EXCEPT ![c] = NoSub]
    /\ lastEvent' = Event(c, "beforeunload", "", NoToast)
    /\ UNCHANGED <<routeTestCases, routeResponse, sessions, participantDocs, now, authUser>>

\* A participant document is deleted from outside the page (the page itself
\* never deletes one); the listeners of its session are told if it was online.
deleteParticipant(pid) ==
    /\ pid \in DOMAIN participantDocs /\ participantDocs[pid] # NoEntry
    /\ participantDocs' = [participantDocs EXCEPT ![pid] = NoEntry]
    /\ sub' = IF participantDocs[pid].online THEN PartsChanged(participantDocs[pid].code) ELSE sub
    /\ lastEvent' = Event(Null, "deleteParticipant", "", NoToast)
    /\ UNCHANGED <<routeTestCases, routeResponse, sessions, now, net, authUser, ui>>

\* signOut(auth) settles; on success handleLogout navigates to the login page,
\* which unmounts the dashboard and so detaches its listeners.
SignOutDone(r, ok) ==
    /\ BagIn(r, net) /\ r.op = "signOut"
    /\ net' = Drop(r)
    /\ authUser' = IF ok THEN [authUser EXCEPT ![r.c] = Null] ELSE authUser
    /\ ui' = IF ok THEN [ui EXCEPT ![r.c].mounted = FALSE] ELSE ui
    /\ sub' = IF ok THEN [sub EXCEPT ![r.c] = NoSub] ELSE sub
    /\ lastEvent' = Event(r.c, IF ok THEN "signOut:ok" ELSE "signOut:error", "", NoToast)
    /\ UNCHANGED <<routeTestCases, routeResponse, sessions, participantDocs, now>>

\* ------------------------------------------------------------ authentication
\* The first onAuthStateChanged callback of a mounted dashboard.
onAuthStateChanged(c) ==
    /\ ui[c].mounted /\ ui[c].user = Null
    /\ IF authUser[c] # Null
       THEN ui' = [ui EXCEPT ![c].user = authUser[c]]
       ELSE ui' = [ui EXCEPT ![c].mounted = FALSE]
    /\ lastEvent' = Event(c, "onAuthStateChanged", "", NoToast)
    /\ UNCHANGED <<routeTestCases, routeResponse, sessions, participantDocs, now, net, authUser, sub>>

\* ------------------------------------------------------ creating and joining
FlowsStarted == Len(participantDocs) + CountOp({"setDoc", "getDoc", "addDoc"})

\* manageParticipant up to its await: the user of the calling render is set
\* (handleCreateSession and handleJoinSession return early otherwise).
manageParticipant(c, sCode, role, cont) ==
    Req("addDoc", c, sCode, NoPid, role, <<>>, NoFile, cont)

\* newCode is what generateSessionCode returns.
handleCreateSession(c, newCode) ==
    /\ OnJoinScreen(c) /\ ~ui[c].isLoadingSession
    /\ IF ui[c].user = Null
       THEN /\ lastEvent' = Event(c, "handleCreateSession", "", "Error de autenticación")
            /\ UNCHANGED <<ui, net>>
       ELSE /\ FlowsStarted < MaxParts
            /\ now + CountOp({"setDoc"}) < MaxCreates
            /\ newCode \in generateSessionCode
            /\ net' = Send(Req("setDoc", c, newCode, NoPid, Null, <<>>, NoFile, "create"))
            /\ ui' = [ui EXCEPT ![c].isLoadingSession = TRUE]
            /\ lastEvent' = Event(c, "handleCreateSession", "", NoToast)
    /\ UNCHANGED <<routeTestCases, routeResponse, sessions, participantDocs, now, authUser, sub>>

\* What handleCreateSession sets once setDoc has resolved (lines 264-265).
EnterCreated(st, code) == [st EXCEPT !.sessionCode = code, !.isViewerMode = FALSE]

\* A create that sets the session code before it awaits setDoc.
SetDocDone_CodeFirst(r, ok) ==
    /\ BagIn(r, net) /\ r.op = "setDoc"
    /\ IF ok
       THEN /\ sessions' = [sessions EXCEPT ![r.code] = SessionDoc(<<>>, Email(r.c), now + 1)]
            /\ now' = now + 1
            /\ sub' = DocChanged(r.code)
            /\ ui' = SetState(r.c, EnterCreated(ui[r.c], r.code))
            /\ net' = Drop(r) (+) SetToBag({manageParticipant(r.c, r.code, "editor", "create")})
            /\ lastEvent' = Event(r.c, "setDoc:ok", "", NoToast)
       ELSE /\ ui' = SetState(r.c, [EnterCreated(ui[r.c], r.code) EXCEPT !.isLoadingSession = FALSE])
            /\ net' = Drop(r)
            /\ lastEvent' = Event(r.c, "setDoc:error", "", "Error al crear sesión")
            /\ UNCHANGED <<sessions, now, sub>>
    /\ UNCHANGED <<routeTestCases, routeResponse, participantDocs, authUser>>

\* A create that leaves a document that exists under the code as it is.
SetDocDone_KeepExisting(r, ok) ==
    /\ BagIn(r, net) /\ r.op = "setDoc"
    /\ IF ok
       THEN /\ sessions' = IF sessions[r.code].exists THEN sessions
                           ELSE [sessions EXCEPT ![r.code] = SessionDoc(<<>>, Email(r.c), now + 1)]
            /\ now' = now + 1
            /\ sub' = IF sessions[r.code].exists THEN sub ELSE DocChanged(r.code)
            /\ ui' = SetState(r.c, EnterCreated(ui[r.c], r.code))
            /\ net' = Drop(r) (+) SetToBag({manageParticipant(r.c, r.code, "editor", "create")})
            /\ lastEvent' = Event(r.c, "setDoc:ok", "", NoToast)
       ELSE /\ ui' = SetState(r.c, [ui[r.c] EXCEPT !.isLoadingSession = FALSE])
            /\ net' = Drop(r)
            /\ lastEvent' = Event(r.c, "setDoc:error", "", "Error al crear sesión")
            /\ UNCHANGED <<sessions, now, sub>>
    /\ UNCHANGED <<routeTestCases, routeResponse, participantDocs, authUser>>

\* setDoc(sessionDocRef, {testCases: [], createdAt, owner}) settles.
SetDocDone(r, ok) ==
    /\ BagIn(r, net) /\ r.op = "setDoc"
    /\ IF ok
       THEN /\ sessions' = [sessions EXCEPT ![r.code] = SessionDoc(<<>>, Email(r.c), now + 1)]
            /\ now' = now + 1
            /\ sub' = DocChanged(r.code)
            /\ ui' = SetState(r.c, EnterCreated(ui[r.c], r.code))
            /\ net' = Drop(r) (+) SetToBag({manageParticipant(r.c, r.code, "editor", "create")})
            /\ lastEvent' = Event(r.c, "setDoc:ok", "", NoToast)
       ELSE /\ ui' = SetState(r.c, [ui[r.c] EXCEPT !.isLoadingSession = FALSE])
            /\ net' = Drop(r)
            /\ lastEvent' = Event(r.c, "setDoc:error", "", "Error al crear sesión")
            /\ UNCHANGED <<sessions, now, sub>>
    /\ UNCHANGED <<routeTestCases, routeResponse, participantDocs, authUser>>

handleJoinSession(c, inputCode, joinAsViewer) ==
    /\ OnJoinScreen(c) /\ ~ui[c].isLoadingSession
    /\ IF ui[c].user = Null
       THEN /\ lastEvent' = Event(c, "handleJoinSession", "", "Error de autenticación")
            /\ UNCHANGED <<ui, net>>
       ELSE IF trim(inputCode) = <<>>
       THEN /\ lastEvent' = Event(c, "handleJoinSession", "", "Código requerido")
            /\ UNCHANGED <<ui, net>>
       ELSE /\ FlowsStarted < MaxParts
            /\ net' = Send(Req("getDoc", c, toUpperCase(trim(inputCode)), NoPid,
                               IF joinAsViewer THEN "viewer" ELSE "editor", <<>>, NoFile, "join"))
            /\ ui' = [ui EXCEPT ![c].isLoadingSession = TRUE]
            /\ lastEvent' = Event(c, "handleJoinSession", "", NoToast)
    /\ UNCHANGED <<routeTestCases, routeResponse, sessions, participantDocs, now, authUser, sub>>

\* What handleJoinSession sets once the document is known to exist (lines 291-294).
EnterJoined(st, code, role) ==
    [st EXCEPT !.sessionCode = code, !.isViewerMode = (role = "viewer"), !.viewerFilter = "all"]

\* A join that does not look at docSnap.exists().
GetDocDone_NoExists(r, ok) ==
    /\ BagIn(r, net) /\ r.op = "getDoc"
    /\ IF ok
       THEN /\ ui' = SetState(r.c, EnterJoined(ui[r.c], r.code, r.role))
            /\ net' = Drop(r) (+) SetToBag({manageParticipant(r.c, r.code, r.role, "join")})
            /\ lastEvent' = IF sessions[r.code].exists THEN Event(r.c, "getDoc:ok", r.role, NoToast)
                            ELSE Event(r.c, "getDoc:absent", "", "Sesión no encontrada")
       ELSE /\ ui' = SetState(r.c, [ui[r.c] EXCEPT !.isLoadingSession = FALSE])
            /\ net' = Drop(r)
            /\ lastEvent' = Event(r.c, "getDoc:error", "", "Error al unirse a la sesión")
    /\ UNCHANGED <<routeTestCases, routeResponse, sessions, participantDocs, now, authUser, sub>>

\* getDoc(sessionDocRef) settles.
GetDocDone(r, ok) ==
    /\ BagIn(r, net) /\ r.op = "getDoc"
    /\ IF ok /\ sessions[r.code].exists
       THEN /\ ui' = SetState(r.c, EnterJoined(ui[r.c], r.code, r.role))
            /\ net' = Drop(r) (+) SetToBag({manageParticipant(r.c, r.code, r.role, "join")})
            /\ lastEvent' = Event(r.c, "getDoc:ok", r.role, NoToast)
       ELSE /\ ui' = SetState(r.c, [ui[r.c] EXCEPT !.isLoadingSession = FALSE])
            /\ net' = Drop(r)
            /\ lastEvent' = IF ok THEN Event(r.c, "getDoc:absent", "", "Sesión no encontrada")
                            ELSE Event(r.c, "getDoc:error", "", "Error al unirse a la sesión")
    /\ UNCHANGED <<routeTestCases, routeResponse, sessions, participantDocs, now, authUser, sub>>

\* What the rest of manageParticipant and its caller's finally block set once
\* addDoc has resolved with the new document's id.
Registered(st, pid) == [st EXCEPT !.participantIdRef = pid, !.isLoadingSession = FALSE]

\* addDoc(participantsColRef, newParticipant) settles: the rest of
\* manageParticipant, then of the handler that awaited it.
AddDocDone(r, ok) ==
    /\ BagIn(r, net) /\ r.op = "addDoc"
    /\ net' = Drop(r)
    /\ IF ok
       THEN /\ participantDocs' = Append(participantDocs, ParticipantDoc(r.code, Email(r.c), r.role))
            /\ sub' = PartsChanged(r.code)
            /\ ui' = SetState(r.c, Registered(ui[r.c], Len(participantDocs) + 1))
            /\ lastEvent' = Event(r.c, "addDoc:ok", r.role,
                                  IF r.cont = "create" THEN "Sesión Creada" ELSE NoToast)
       ELSE /\ ui' = SetState(r.c, [ui[r.c] EXCEPT !.isLoadingSession = FALSE])
            /\ lastEvent' = Event(r.c, "addDoc:error", r.role,
                                  IF r.cont = "create" THEN "Error al crear sesión"
                                  ELSE "Error al unirse a la sesión")
            /\ UNCHANGED <<participantDocs, sub>>
    /\ UNCHANGED <<routeTestCases, routeResponse, sessions, now, authUser>>

\* ------------------------------------------------------------- subscriptions
\* The effect keyed on sessionCode: the cleanup of the previous run detaches
\* both listeners, and with a session code the new run attaches them again.
sessionEffect(c) ==
    /\ ui[c].mounted
    /\ sub[c].code # ui[c].sessionCode
    /\ sub' = [sub EXCEPT ![c] = [code |-> ui[c].sessionCode,
                                  docDue |-> ui[c].sessionCode # NoCode,
                                  docDead |-> FALSE,
                                  partsDue |-> ui[c].sessionCode # NoCode]]
    /\ ui' = IF ui[c].sessionCode # NoCode THEN [ui EXCEPT ![c].isLoadingSession = TRUE] ELSE ui
    /\ lastEvent' = Event(c, "sessionEffect", "", NoToast)
    /\ UNCHANGED <<routeTestCases, routeResponse, sessions, participantDocs, now, net, authUser>>

\* A listener that merges: a case the tab already holds keeps its local
\* evidence when the snapshot's is empty.
docSnapshot_Merge(c) ==
    /\ sub[c].code # NoCode /\ sub[c].docDue /\ ~sub[c].docDead
    /\ sub' = [sub EXCEPT ![c].docDue = FALSE]
    /\ IF sessions[sub[c].code].exists
       THEN LET remote == sessions[sub[c].code].testCases
                local == ui[c].testCases
                merged == [i \in 1..Len(remote) |->
                             IF /\ remote[i].evidencia = ""
                                /\ \E j \in 1..Len(local) : local[j].id = remote[i].id
                             THEN [remote[i] EXCEPT !.evidencia =
                                     local[CHOOSE j \in 1..Len(local) :
                                               local[j].id = remote[i].id].evidencia]
                             ELSE remote[i]]
            IN /\ ui' = SetState(c, [ui[c] EXCEPT !.testCases = merged,
                                                  !.isLoadingSession = FALSE])
               /\ net' = net
               /\ lastEvent' = Event(c, "docSnapshot", "", NoToast)
       ELSE /\ leaveSessionCleanup(c, sub[c].code, "leave",
                                    [ui[c] EXCEPT !.isLoadingSession = FALSE])
            /\ lastEvent' = Event(c, "docSnapshot", LeaveCall(c, sub[c].code), "Error de Sesión")
    /\ UNCHANGED <<routeTestCases, routeResponse, sessions, participantDocs, now, authUser>>

\* The listener on the session document is called with the latest snapshot.
docSnapshot(c) ==
    /\ sub[c].code # NoCode /\ sub[c].docDue /\ ~sub[c].docDead
    /\ sub' = [sub EXCEPT ![c].docDue = FALSE]
    /\ IF sessions[sub[c].code].exists
       THEN /\ ui' = SetState(c, [ui[c] EXCEPT !.testCases = sessions[sub[c].code].testCases,
                                               !.isLoadingSession = FALSE])
            /\ net' = net
            /\ lastEvent' = Event(c, "docSnapshot", "", NoToast)
       ELSE /\ leaveSessionCleanup(c, sub[c].code, "leave",
                                    [ui[c] EXCEPT !.isLoadingSession = FALSE])
            /\ lastEvent' = Event(c, "docSnapshot", LeaveCall(c, sub[c].code), "Error de Sesión")
    /\ UNCHANGED <<routeTestCases, routeResponse, sessions, participantDocs, now, authUser>>

\* The error callback of the listener on the session document: Firestore
\* ends the listener, and the callback leaves the session (lines 214-219).
docError(c) ==
    /\ sub[c].code # NoCode /\ ~sub[c].docDead
    /\ sub' = [sub EXCEPT ![c].docDead = TRUE, ![c].docDue = FALSE]
    /\ leaveSessionCleanup(c, sub[c].code, "leave",
                            [ui[c] EXCEPT !.isLoadingSession = FALSE])
    /\ lastEvent' = Event(c, "docError", LeaveCall(c, sub[c].code), "Error de Conexión")
    /\ UNCHANGED <<routeTestCases, routeResponse, sessions, participantDocs, now, authUser>>

\* A session document is deleted from outside the page (the page itself
\* never deletes one); its listeners are told.
deleteSession(d) ==
    /\ sessions[d].exists
    /\ sessions' = [sessions EXCEPT ![d] = NoDoc]
    /\ sub' = DocChanged(d)
    /\ lastEvent' = Event(Null, "deleteSession", "", NoToast)
    /\ UNCHANGED <<routeTestCases, routeResponse, participantDocs, now, net, authUser, ui>>

\* The ids of the participant documents of a session with online == true.
RECURSIVE OnlineIds(_, _)
OnlineIds(code, n) ==
    IF n = 0 THEN <<>>
    ELSE IF participantDocs[n].code = code /\ participantDocs[n].online
         THEN Append(OnlineIds(code, n - 1), n)
         ELSE OnlineIds(code, n - 1)
activeParticipants(code) == OnlineIds(code, Len(participantDocs))

\* The listener on the where("online", "==", true) query is called; the list
\* is kept as the ids of the documents of the snapshot.
participantsSnapshot(c) ==
    /\ sub[c].code # NoCode /\ sub[c].partsDue
    /\ sub' = [sub EXCEPT ![c].partsDue = FALSE]
    /\ ui' = SetState(c, [ui[c] EXCEPT !.participants = activeParticipants(sub[c].code)])
    /\ lastEvent' = Event(c, "participantsSnapshot", "", NoToast)
    /\ UNCHANGED <<routeTestCases, routeResponse, sessions, participantDocs, now, net, authUser>>

\* ------------------------------------------------------- the test-case list
\* updateFirestoreTestCases as the closure of a render whose sessionCode was
\* code: the replace write it awaits, if it issues one.  by is the role the
\* tab showed when the user asked for the change.
updateFirestoreTestCases(c, code, updatedCases, by) ==
    IF code # NoCode
    THEN SetToBag({Req("updateDoc", c, code, NoPid, by, updatedCases, NoFile, "")})
    ELSE EmptyBag

\* The role a tab shows: isViewerMode read as a role.
LocalRole(st) == IF st.isViewerMode THEN "viewer" ELSE "editor"

filteredCases(st) ==
    IF st.isViewerMode
    THEN IF st.viewerFilter = "all" THEN st.testCases
         ELSE SelectSeq(st.testCases, LAMBDA tc : tc.estado = st.viewerFilter)
    ELSE SelectSeq(st.testCases,
                   LAMBDA tc : /\ (st.filterProcess = "all" \/ tc.proceso = st.filterProcess)
                               /\ (st.filterStatus = "all" \/ tc.estado = st.filterStatus))

\* A page that hands onUpdate and onDelete to the cards of the viewer as well.
CardsShown_AnyRole(c) ==
    /\ InSessionView(c)
    /\ ~ui[c].isLoadingSession
    /\ ui[c].testCases # <<>>

\* The TestCaseCard list of the editor view is rendered.
CardsShown(c) ==
    /\ EditorControls(c)
    /\ ~ui[c].isLoadingSession
    /\ ui[c].testCases # <<>>

\* The list handleUpdate computes (lines 457-467).
updatedCases(cases, id, field, value, user) ==
    [i \in 1..Len(cases) |->
        IF cases[i].id = id
        THEN IF field = "estado"
             THEN [cases[i] EXCEPT !.estado = value,
                                   !.updatedBy = IF user # Null THEN user ELSE "System",
                                   !.updatedAt = now + 1]
             ELSE [cases[i] EXCEPT ![field] = value]
        ELSE cases[i]]

\* What a call of handleUpdate asks for: the field, and for the status
\* Fallido whether the case lacks comentarios or evidencia.
UpdateCall(cases, id, field, value) ==
    IF field = "estado" /\ value = "Fallido"
    THEN IF \E i \in 1..Len(cases) :
               cases[i].id = id /\ (cases[i].comentarios = "" \/ cases[i].evidencia = "")
         THEN "Fallido:lacking" ELSE "Fallido:complete"
    ELSE field

\* onUpdate of the card of case id in the editor view.
handleUpdate(c, id, field, value) ==
    /\ CardsShown(c) /\ CanWrite(c)
    /\ \E i \in 1..Len(filteredCases(ui[c])) : filteredCases(ui[c])[i].id = id
    /\ net' = net (+) updateFirestoreTestCases(c, ui[c].sessionCode,
                          updatedCases(ui[c].testCases, id, field, value, ui[c].user),
                          LocalRole(ui[c]))
    /\ lastEvent' = Event(c, "handleUpdate", UpdateCall(ui[c].testCases, id, field, value), NoToast)
    /\ UNCHANGED <<routeTestCases, routeResponse, sessions, participantDocs, now, authUser, ui, sub>>

\* onDelete of the card of case id in the editor view.
handleDeleteTestCase(c, id) ==
    /\ CardsShown(c) /\ CanWrite(c)
    /\ \E i \in 1..Len(filteredCases(ui[c])) : filteredCases(ui[c])[i].id = id
    /\ net' = net (+) updateFirestoreTestCases(c, ui[c].sessionCode,
                          SelectSeq(ui[c].testCases, LAMBDA tc : tc.id # id),
                          LocalRole(ui[c]))
    /\ lastEvent' = Event(c, "handleDeleteTestCase", "", "Caso de prueba eliminado")
    /\ UNCHANGED <<routeTestCases, routeResponse, sessions, participantDocs, now, authUser, ui, sub>>

\* "Limpiar Todo" of the editor's menu.
handleClearData(c) ==
    /\ EditorControls(c) /\ CanWrite(c)
    /\ net' = net (+) updateFirestoreTestCases(c, ui[c].sessionCode, <<>>, LocalRole(ui[c]))
    /\ lastEvent' = Event(c, "handleClearData", "", "Datos eliminados")
    /\ UNCHANGED <<routeTestCases, routeResponse, sessions, participantDocs, now, authUser, ui, sub>>

\* A JSON file is picked in the editor view: the FileReader starts, and its
\* onload closure keeps the list and the session code of this render.
handleJsonUpload(c, file) ==
    /\ EditorControls(c) /\ CanWrite(c)
    /\ Len(ui[c].testCases) + Len(file.rows) <= MaxCases
    /\ net' = Send(Req("readFile", c, ui[c].sessionCode, NoPid, LocalRole(ui[c]),
                        ui[c].testCases, file, ""))
    /\ lastEvent' = Event(c, "handleJsonUpload", "", NoToast)
    /\ UNCHANGED <<routeTestCases, routeResponse, sessions, participantDocs, now, authUser, ui, sub>>

\* json.map of the onload closure; ids[i] is what simpleUUID returns for row i.
newCases(rows, ids) ==
    [i \in 1..Len(rows) |->
        TestCase(ids[i], rows[i].proceso,
                 IF rows[i].estado # "" THEN rows[i].estado ELSE "Pendiente",
                 rows[i].comentarios, rows[i].evidencia, Null)]

\* An onload that writes the new cases in place of the list.
FileLoaded_Replace(r, ids) ==
    /\ BagIn(r, net) /\ r.op = "readFile"
    /\ IF r.file.valid
       THEN /\ ids \in [1..Len(r.file.rows) -> UUIDs]
            /\ net' = Drop(r) (+) updateFirestoreTestCases(r.c, r.code,
                                      newCases(r.file.rows, ids), r.role)
            /\ lastEvent' = Event(r.c, "readFile:ok", "", "Éxito")
       ELSE /\ net' = Drop(r)
            /\ lastEvent' = Event(r.c, "readFile:error", "", "Fallo la Carga")
    /\ UNCHANGED <<routeTestCases, routeResponse, sessions, participantDocs, now, authUser, ui, sub>>

\* reader.onload of handleJsonUpload; ids are the values simpleUUID returns.
FileLoaded(r, ids) ==
    /\ BagIn(r, net) /\ r.op = "readFile"
    /\ IF r.file.valid
       THEN /\ ids \in [1..Len(r.file.rows) -> UUIDs]
            /\ net' = Drop(r) (+) updateFirestoreTestCases(r.c, r.code,
                                      r.cases \o newCases(r.file.rows, ids), r.role)
            /\ lastEvent' = Event(r.c, "readFile:ok", "", "Éxito")
       ELSE /\ net' = Drop(r)
            /\ lastEvent' = Event(r.c, "readFile:error", "", "Fallo la Carga")
    /\ UNCHANGED <<routeTestCases, routeResponse, sessions, participantDocs, now, authUser, ui, sub>>

\* A picked spreadsheet: whether XLSX.read accepts it, whether one of its rows
\* holds the header 'Proceso', and the rows below the header (defval "").
SheetFile(valid, header, rows) == [valid |-> valid, header |-> header, rows |-> rows]
RawBlank == [proceso |-> "", estado |-> "", comentarios |-> "", evidencia |-> ""]

\* A spreadsheet is picked in the editor view: as handleJsonUpload, with
\* readAsArrayBuffer.
handleExcelUpload(c, file) ==
    /\ EditorControls(c) /\ CanWrite(c)
    /\ Len(ui[c].testCases) + Len(file.rows) <= MaxCases
    /\ net' = Send(Req("readSheet", c, ui[c].sessionCode, NoPid, LocalRole(ui[c]),
                        ui[c].testCases, file, ""))
    /\ lastEvent' = Event(c, "handleExcelUpload", "", NoToast)
    /\ UNCHANGED <<routeTestCases, routeResponse, sessions, participantDocs, now, authUser, ui, sub>>

\* The rows the filter of line 427 keeps: those with a value that is not ''.
nonEmptyRows(rows) ==
    SelectSeq(rows, LAMBDA row : \E k \in DOMAIN row : row[k] # "")

\* reader.onload of handleExcelUpload; ids are the values simpleUUID returns
\* for the rows that are kept.
SheetLoaded(r, ids) ==
    /\ BagIn(r, net) /\ r.op = "readSheet"
    /\ IF ~r.file.valid
       THEN /\ net' = Drop(r)
            /\ lastEvent' = Event(r.c, "readSheet:error", "", "Fallo la Carga")
       ELSE IF ~r.file.header
       THEN /\ net' = Drop(r)
            /\ lastEvent' = Event(r.c, "readSheet:noHeader", "", "Formato de Excel Inválido")
       ELSE /\ ids \in [1..Len(nonEmptyRows(r.file.rows)) -> UUIDs]
            /\ net' = Drop(r) (+) updateFirestoreTestCases(r.c, r.code,
                                      r.cases \o newCases(nonEmptyRows(r.file.rows), ids), r.role)
            /\ lastEvent' = Event(r.c, "readSheet:ok", "", "Éxito")
    /\ UNCHANGED <<routeTestCases, routeResponse, sessions, participantDocs, now, authUser, ui, sub>>

\* A write with arrayUnion: it adds the cases the document does not hold yet
\* and keeps the others.
UpdateDocDone_Union(r, ok) ==
    /\ BagIn(r, net) /\ r.op = "updateDoc"
    /\ net' = Drop(r)
    /\ IF ok /\ sessions[r.code].exists
       THEN LET old == sessions[r.code].testCases
                merged == old \o SelectSeq(r.cases,
                                    LAMBDA tc : \A i \in 1..Len(old) : old[i] # tc)
            IN /\ sessions' = [sessions EXCEPT ![r.code].testCases = merged]
               /\ sub' = IF old # merged THEN DocChanged(r.code) ELSE sub
               /\ lastEvent' = Event(r.c, "updateDoc:ok", "", NoToast)
       ELSE /\ lastEvent' = Event(r.c, "updateDoc:error", "", "Error de Sincronización")
            /\ UNCHANGED <<sessions, sub>>
    /\ UNCHANGED <<routeTestCases, routeResponse, participantDocs, now, authUser, ui>>

\* updateDoc(sessionDocRef, {testCases}) settles; it rejects for a document
\* that does not exist.
UpdateDocDone(r, ok) ==
    /\ BagIn(r, net) /\ r.op = "updateDoc"
    /\ net' = Drop(r)
    /\ IF ok /\ sessions[r.code].exists
       THEN /\ sessions' = [sessions EXCEPT ![r.code].testCases = r.cases]
            /\ sub' = IF sessions[r.code].testCases # r.cases THEN DocChanged(r.code) ELSE sub
            /\ lastEvent' = Event(r.c, "updateDoc:ok", "", NoToast)
       ELSE /\ lastEvent' = Event(r.c, "updateDoc:error", "", "Error de Sincronización")
            /\ UNCHANGED <<sessions, sub>>
    /\ UNCHANGED <<routeTestCases, routeResponse, participantDocs, now, authUser, ui>>

\* ------------------------------------------------------------- report views
\* The characters of the texts a comment field holds in this model.
Chars(text) ==
    CASE text = "" -> <<>>
      [] text = " " -> <<" ">>
      [] OTHER -> <<text>>

failedCases(st) == SelectSeq(st.testCases, LAMBDA tc : tc.estado = "Fallido")

\* A filter on the comment as it is, without trim().
commentedCases_NoTrim(st) ==
    SelectSeq(st.testCases, LAMBDA tc : Chars(tc.comentarios) # <<>>)

\* tc.comentarios?.trim() is truthy.
commentedCases(st) ==
    SelectSeq(st.testCases, LAMBDA tc : trim(Chars(tc.comentarios)) # <<>>)

\* The counters of the sidebar (the progress percentage is left out).
stats(st) ==
    LET n(status) == Len(SelectSeq(st.testCases, LAMBDA tc : tc.estado = status))
    IN [total |-> Len(st.testCases),
        passed |-> n("Aprobado"), failed |-> n("Fallido"),
        na |-> n("N/A"), pending |-> n("Pendiente"),
        completed |-> n("Aprobado") + n("Fallido") + n("N/A")]

\* -------------------------------------------------------------------- filters
\* The options of the process Select: 'all' and the processes of the list.
processes(st) == {"all"} \cup ({st.testCases[i].proceso : i \in 1..Len(st.testCases)} \ {""})

setFilterProcess(c, v) ==
    /\ EditorControls(c)
    /\ v \in processes(ui[c]) /\ v # ui[c].filterProcess
    /\ ui' = [ui EXCEPT ![c].filterProcess = v]
    /\ lastEvent' = Event(c, "setFilterProcess", "", NoToast)
    /\ UNCHANGED <<routeTestCases, routeResponse, sessions, participantDocs, now, net, authUser, sub>>

setFilterStatus(c, v) ==
    /\ EditorControls(c)
    /\ v \in {"all"} \cup Statuses /\ v # ui[c].filterStatus
    /\ ui' = [ui EXCEPT ![c].filterStatus = v]
    /\ lastEvent' = Event(c, "setFilterStatus", "", NoToast)
    /\ UNCHANGED <<routeTestCases, routeResponse, sessions, participantDocs, now, net, authUser, sub>>

\* A status card of the viewer dashboard is clicked: it toggles the filter.
setViewerFilter(c, status) ==
    /\ InSessionView(c) /\ ui[c].isViewerMode /\ ~ui[c].isLoadingSession
    /\ ui' = [ui EXCEPT ![c].viewerFilter = IF @ = status THEN "all" ELSE status]
    /\ lastEvent' = Event(c, "setViewerFilter", "", NoToast)
    /\ UNCHANGED <<routeTestCases, routeResponse, sessions, participantDocs, now, net, authUser, sub>>

\* ------------------------------------------------------------ specifications
\* Whether an awaited call may reject: every Firestore and Auth call may.
Outcomes(r, failing) == IF r.op \in failing THEN BOOLEAN ELSE {TRUE}
AllOps == {"setDoc", "getDoc", "addDoc", "markOffline", "signOut", "updateDoc"}

LowerA == <<"a","b","3","x","7","k">>
Blank == <<" "," ">>
Partial == <<" ","A","B","3"," ">>
OneRow == File(TRUE, <<RawPending>>)

\* Firestore as an earlier run of the application has left it: session CodeB
\* holds one test case with a comment and no evidence, and the participant
\* entry of the tab that created it has been marked offline.
\* ------------------------------------------------- api/test-cases/route.ts
\* A request body: whether request.json() parses it, whether the value is an
\* array, and the items of the array.  An item is a JSON object, given by its
\* fields ("" for a field that is absent), or JSON null.
Body(parses, isArray, items) == [parses |-> parses, isArray |-> isArray, items |-> items]
JsonNull == [null |-> TRUE]
RouteRows ==
    {[id |-> id, proceso |-> "P1", estado |-> estado, comentarios |-> "", evidencia |-> ""] :
        id \in {"", "a"}, estado \in {"", "Aprobado"}}
Bodies ==
    {Body(FALSE, FALSE, <<>>), Body(TRUE, FALSE, <<>>)}
    \cup {Body(TRUE, TRUE, items) :
            items \in UNION {[1..n -> RouteRows \cup {JsonNull}] : n \in 0..MaxCases}}
\* The values of `temp-id-${Math.random()}`.
TempIds == {"temp-id-1", "temp-id-2"}

NoResponse == [status |-> 0, body |-> "none"]
Response(status, body) == [status |-> status, body |-> body]

\* What a POST is given: a body that does not parse, a value that is not an
\* array, an array with an item whose fields cannot be read, an array.
BodyKind(body) ==
    IF ~body.parses THEN "unparseable"
    ELSE IF ~body.isArray THEN "notArray"
    ELSE IF \E i \in DOMAIN body.items : body.items[i] = JsonNull THEN "arrayWithNull"
    ELSE "array"

\* The map of lines 28-39, with tmp[i] the random id drawn for item i.
lightValidation(items, tmp) ==
    [i \in DOMAIN items |->
        [id |-> IF items[i].id # "" THEN items[i].id ELSE tmp[i],
         proceso |-> items[i].proceso,
         comentarios |-> items[i].comentarios,
         evidencia |-> items[i].evidencia,
         estado |-> IF items[i].estado # "" THEN items[i].estado ELSE "pending"]]

GET ==
    /\ routeResponse' = Response(200, routeTestCases)
    /\ lastEvent' = Event(Null, "GET", "", NoToast)
    /\ UNCHANGED <<sessions, participantDocs, now, net, authUser, ui, sub, routeTestCases>>

\* A POST that takes a value that is not an array for the empty array.
POST_Lenient(body, tmp) ==
    /\ tmp \in [DOMAIN body.items -> TempIds]
    /\ IF BodyKind(body) \in {"array", "notArray"}
       THEN /\ routeTestCases' = lightValidation(body.items, tmp)
            /\ routeResponse' = Response(200, "Test cases updated.")
       ELSE /\ routeTestCases' = routeTestCases
            /\ routeResponse' = Response(400, "Failed to parse request body.")
    /\ lastEvent' = Event(Null, "POST", BodyKind(body), NoToast)
    /\ UNCHANGED <<sessions, participantDocs, now, net, authUser, ui, sub>>

\* POST: request.json() throws on a body that does not parse, and the map
\* throws on a null item before the assignment to testCases; the catch answers
\* both with 400.
POST(body, tmp) ==
    /\ tmp \in [DOMAIN body.items -> TempIds]
    /\ IF BodyKind(body) = "notArray"
       THEN /\ routeTestCases' = routeTestCases
            /\ routeResponse' = Response(400, "Invalid data format. Expected an array.")
       ELSE IF BodyKind(body) = "array"
       THEN /\ routeTestCases' = lightValidation(body.items, tmp)
            /\ routeResponse' = Response(200, "Test cases updated.")
       ELSE /\ routeTestCases' = routeTestCases
            /\ routeResponse' = Response(400, "Failed to parse request body.")
    /\ lastEvent' = Event(Null, "POST", BodyKind(body), NoToast)
    /\ UNCHANGED <<sessions, participantDocs, now, net, authUser, ui, sub>>

SeededCase == TestCase("id1", "P1", "Pendiente", "x", "", Null)
Init ==
    /\ sessions = [d \in DocIds |-> IF d = CodeB THEN SessionDoc(<<SeededCase>>, "eve@qa", 0)
                                    ELSE NoDoc]
    /\ participantDocs = <<[ParticipantDoc(CodeB, "eve@qa", "editor") EXCEPT !.online = FALSE]>>
    /\ now = 0
    /\ net = EmptyBag
    /\ authUser = [c \in Clients |-> Email(c)]
    /\ ui = [c \in Clients |-> InitialUi]
    /\ sub = [c \in Clients |-> NoSub]
    /\ routeTestCases = <<>>
    /\ routeResponse = NoResponse
    /\ lastEvent = Event(Null, "init", "", NoToast)

\* SpecLife: the session life cycle of one tab.  It creates a session, joins
\* (as editor or as viewer, with codes that exist and codes that do not, typed
\* in lower case or padded), leaves and logs out, and every awaited call may
\* reject.
NextLife ==
    \/ onAuthStateChanged("c1")
    \/ handleCreateSession("c1", CodeA)
    \/ \E t \in {LowerA, CodeB, Partial, Blank} : \E v \in BOOLEAN : handleJoinSession("c1", t, v)
    \/ handleLeaveSession("c1")
    \/ handleLogout("c1")
    \/ sessionEffect("c1")
    \/ docSnapshot("c1")
    \/ participantsSnapshot("c1")
    \/ \E r \in BagToSet(net) : \E ok \in Outcomes(r, AllOps) :
          \/ SetDocDone(r, ok)
          \/ GetDocDone(r, ok)
          \/ AddDocDone(r, ok)
          \/ MarkOfflineDone(r, ok)
          \/ SignOutDone(r, ok)

SpecLife == Init /\ [][NextLife]_vars

\* SpecFilter: one tab joins the seeded session as editor or as viewer, sets
\* the filters of its view and leaves; the mark-offline write may reject.
NextFilter ==
    \/ onAuthStateChanged("c1")
    \/ \E v \in BOOLEAN : handleJoinSession("c1", CodeB, v)
    \/ \E v \in {"all", "P1"} : setFilterProcess("c1", v)
    \/ \E v \in {"all", "Fallido"} : setFilterStatus("c1", v)
    \/ setViewerFilter("c1", "Fallido")
    \/ handleLeaveSession("c1")
    \/ sessionEffect("c1")
    \/ docSnapshot("c1")
    \/ participantsSnapshot("c1")
    \/ \E r \in BagToSet(net) : \E ok \in Outcomes(r, {"markOffline"}) :
          \/ GetDocDone(r, ok)
          \/ AddDocDone(r, ok)
          \/ MarkOfflineDone(r, ok)

SpecFilter == Init /\ [][NextFilter]_vars

\* SpecEdit: two tabs in the seeded session.  Tab c1 joins as editor or as
\* viewer, tab c2 as viewer; whoever is offered the editor's controls edits the
\* list, and a replace write may reject.
NextEdit ==
    \/ \E c \in Clients : onAuthStateChanged(c)
    \/ \E v \in BOOLEAN : handleJoinSession("c1", CodeB, v)
    \/ handleJoinSession("c2", CodeB, TRUE)
    \/ \E c \in Clients : sessionEffect(c)
    \/ \E c \in Clients : docSnapshot(c)
    \/ \E c \in Clients : participantsSnapshot(c)
    \/ \E c \in Clients : \E fv \in {<<"estado", "Fallido">>, <<"evidencia", "x">>} :
          handleUpdate(c, "id1", fv[1], fv[2])
    \/ \E c \in Clients : handleDeleteTestCase(c, "id1")
    \/ \E c \in Clients : handleClearData(c)
    \/ \E c \in Clients : handleJsonUpload(c, OneRow)
    \/ \E r \in BagToSet(net) : FileLoaded(r, <<"id2">>)
    \/ \E r \in BagToSet(net) : \E ok \in Outcomes(r, {"updateDoc"}) :
          \/ GetDocDone(r, ok)
          \/ AddDocDone(r, ok)
          \/ UpdateDocDone(r, ok)

SpecEdit == Init /\ [][NextEdit]_vars

\* SpecSync: tab c1 edits the seeded session as editor while tab c2 watches
\* it as viewer.  Firestore delivers the latest snapshot of a document to
\* every listener that stays attached to it.
NextSync ==
    \/ \E c \in Clients : onAuthStateChanged(c)
    \/ handleJoinSession("c1", CodeB, FALSE)
    \/ handleJoinSession("c2", CodeB, TRUE)
    \/ \E c \in Clients : sessionEffect(c)
    \/ \E c \in Clients : docSnapshot(c)
    \/ \E c \in Clients : participantsSnapshot(c)
    \/ \E fv \in {<<"estado", "Fallido">>, <<"evidencia", "x">>} :
          handleUpdate("c1", "id1", fv[1], fv[2])
    \/ handleDeleteTestCase("c1", "id1")
    \/ \E r \in BagToSet(net) : \E ok \in Outcomes(r, {"updateDoc"}) :
          \/ GetDocDone(r, ok)
          \/ AddDocDone(r, ok)
          \/ UpdateDocDone(r, ok)

SpecSync ==
    /\ Init
    /\ [][NextSync]_vars
    /\ \A c \in Clients : WF_vars(docSnapshot(c))

\* SpecUpload: tab c1 edits the seeded session as editor.  It uploads JSON
\* files and spreadsheets, edits and deletes cases; simpleUUID may return any
\* value of UUIDs for a new case.
RawDone == [id |-> "raw7", proceso |-> "P2", estado |-> "Aprobado",
            comentarios |-> " ", evidencia |-> ""]
TwoRows == File(TRUE, <<RawDone, RawPending>>)
NotJson == File(FALSE, <<>>)
Sheets ==
    { SheetFile(TRUE, TRUE, <<RawBlank, RawPending>>),
      SheetFile(TRUE, FALSE, <<RawPending>>),
      SheetFile(FALSE, FALSE, <<>>) }

NextUpload ==
    \/ onAuthStateChanged("c1")
    \/ handleJoinSession("c1", CodeB, FALSE)
    \/ sessionEffect("c1")
    \/ docSnapshot("c1")
    \/ participantsSnapshot("c1")
    \/ \E id \in UUIDs : handleUpdate("c1", id, "estado", "Fallido")
    \/ \E id \in UUIDs : handleDeleteTestCase("c1", id)
    \/ \E f \in {OneRow, TwoRows, NotJson} : handleJsonUpload("c1", f)
    \/ \E f \in Sheets : handleExcelUpload("c1", f)
    \/ \E r \in BagToSet(net) : \E ids \in UNION {[1..n -> UUIDs] : n \in 0..MaxCases} :
          \/ FileLoaded(r, ids)
          \/ SheetLoaded(r, ids)
    \/ \E r \in BagToSet(net) :
          \/ GetDocDone(r, TRUE)
          \/ AddDocDone(r, TRUE)
          \/ UpdateDocDone(r, TRUE)

SpecUpload == Init /\ [][NextUpload]_vars

\* Wall-clock time.  The README's window of inactivity, in minutes.
IdleMinutes == 20

\* The minutes that have passed since the last step of any tab or of
\* Firestore; lastEvent counts them.
Idle ==
    IF lastEvent.op = "tick"
    THEN CHOOSE k \in 1..(IdleMinutes + 1) : ToString(k) = lastEvent.arg
    ELSE 0

\* A minute passes in which nothing happens.  No timer of the page is
\* pending at any time, so the passing of time runs no code.
Tick ==
    /\ Idle <= IdleMinutes
    /\ lastEvent' = Event(Null, "tick", ToString(Idle + 1), NoToast)
    /\ UNCHANGED <<routeTestCases, routeResponse, sessions, participantDocs, now, net, authUser, ui, sub>>

\* SpecIdle: one tab joins the seeded session as editor or as viewer, edits
\* the list and leaves, while time passes.
NextIdle ==
    \/ onAuthStateChanged("c1")
    \/ \E v \in BOOLEAN : handleJoinSession("c1", CodeB, v)
    \/ handleLeaveSession("c1")
    \/ sessionEffect("c1")
    \/ docSnapshot("c1")
    \/ participantsSnapshot("c1")
    \/ handleUpdate("c1", "id1", "evidencia", "x")
    \/ Tick
    \/ \E r \in BagToSet(net) :
          \/ GetDocDone(r, TRUE)
          \/ AddDocDone(r, TRUE)
          \/ MarkOfflineDone(r, TRUE)
          \/ UpdateDocDone(r, TRUE)

SpecIdle == Init /\ [][NextIdle]_vars

\* SpecPresence: tab c1 joins the seeded session as editor and tab c2 as
\* viewer; they leave and join again, and a mark-offline write may reject.
NextPresence ==
    \/ \E c \in Clients : onAuthStateChanged(c)
    \/ handleJoinSession("c1", CodeB, FALSE)
    \/ handleJoinSession("c2", CodeB, TRUE)
    \/ \E c \in Clients : handleLeaveSession(c)
    \/ \E c \in Clients : sessionEffect(c)
    \/ \E c \in Clients : docSnapshot(c)
    \/ \E c \in Clients : participantsSnapshot(c)
    \/ \E r \in BagToSet(net) : \E ok \in Outcomes(r, {"markOffline"}) :
          \/ GetDocDone(r, ok)
          \/ AddDocDone(r, ok)
          \/ MarkOfflineDone(r, ok)

SpecPresence == Init /\ [][NextPresence]_vars

\* SpecCode: one tab creates sessions with any code generateSessionCode can
\* return, and leaves them; every awaited call may reject.
NextCode ==
    \/ onAuthStateChanged("c1")
    \/ \E code \in generateSessionCode : handleCreateSession("c1", code)
    \/ handleLeaveSession("c1")
    \/ sessionEffect("c1")
    \/ docSnapshot("c1")
    \/ participantsSnapshot("c1")
    \/ \E r \in BagToSet(net) : \E ok \in Outcomes(r, AllOps) :
          \/ SetDocDone(r, ok)
          \/ AddDocDone(r, ok)
          \/ MarkOfflineDone(r, ok)

SpecCode == Init /\ [][NextCode]_vars

\* SpecRace: two editors in the seeded session.  Tab c1 appends a second
\* case; then c1 edits the evidence of the first case and c2 the status of
\* the second, each from the list it holds.
NextRace ==
    \/ \E c \in Clients : onAuthStateChanged(c)
    \/ \E c \in Clients : handleJoinSession(c, CodeB, FALSE)
    \/ \E c \in Clients : sessionEffect(c)
    \/ \E c \in Clients : docSnapshot(c)
    \/ \E c \in Clients : participantsSnapshot(c)
    \/ handleJsonUpload("c1", OneRow)
    \/ \E r \in BagToSet(net) : FileLoaded(r, <<"id2">>)
    \/ handleUpdate("c1", "id1", "evidencia", "x")
    \/ handleUpdate("c2", "id2", "estado", "Aprobado")
    \/ \E r \in BagToSet(net) :
          \/ GetDocDone(r, TRUE)
          \/ AddDocDone(r, TRUE)
          \/ UpdateDocDone(r, TRUE)

SpecRace == Init /\ [][NextRace]_vars

\* SpecDead: one tab joins the seeded session and leaves it, while the
\* session document may be deleted from outside and the listener on it may
\* report an error; a registration or a mark-offline write may reject.
NextDead ==
    \/ onAuthStateChanged("c1")
    \/ \E v \in BOOLEAN : handleJoinSession("c1", CodeB, v)
    \/ handleLeaveSession("c1")
    \/ sessionEffect("c1")
    \/ docSnapshot("c1")
    \/ participantsSnapshot("c1")
    \/ docError("c1")
    \/ deleteSession(CodeB)
    \/ \E r \in BagToSet(net) : \E ok \in Outcomes(r, {"addDoc", "markOffline"}) :
          \/ GetDocDone(r, ok)
          \/ AddDocDone(r, ok)
          \/ MarkOfflineDone(r, ok)

SpecDead == Init /\ [][NextDead]_vars

\* SpecOffline: one tab joins the seeded session as an editor, leaves it
\* (a second click may come before the first write has settled) or is closed;
\* participant documents may be deleted from outside, and a mark-offline
\* write may reject.
NextOffline ==
    \/ onAuthStateChanged("c1")
    \/ handleJoinSession("c1", CodeB, FALSE)
    \/ handleLeaveSession("c1")
    \/ handleBeforeUnload("c1")
    \/ sessionEffect("c1")
    \/ docSnapshot("c1")
    \/ participantsSnapshot("c1")
    \/ \E pid \in DOMAIN participantDocs : deleteParticipant(pid)
    \/ \E r \in BagToSet(net) : \E ok \in Outcomes(r, {"markOffline"}) :
          \/ GetDocDone(r, ok)
          \/ AddDocDone(r, ok)
          \/ MarkOfflineDone(r, ok)

SpecOffline == Init /\ [][NextOffline]_vars

\* SpecLeave: one tab creates a session or joins the seeded one and leaves
\* it; every awaited call resolves.
NextLeave ==
    \/ onAuthStateChanged("c1")
    \/ handleCreateSession("c1", CodeA)
    \/ \E v \in BOOLEAN : handleJoinSession("c1", CodeB, v)
    \/ handleLeaveSession("c1")
    \/ sessionEffect("c1")
    \/ docSnapshot("c1")
    \/ participantsSnapshot("c1")
    \/ \E r \in BagToSet(net) :
          \/ SetDocDone(r, TRUE)
          \/ GetDocDone(r, TRUE)
          \/ AddDocDone(r, TRUE)
          \/ MarkOfflineDone(r, TRUE)

SpecLeave == Init /\ [][NextLeave]_vars

\* A row as importFromAzureAction maps a work item (actions.ts:254-268), saved
\* in a JSON file: its estado is 'pending'.
RawAzure == [proceso |-> "General", estado |-> "pending", comentarios |-> "", evidencia |-> ""]
AzureRows == File(TRUE, <<RawAzure>>)

\* SpecStats: one editor in the seeded session uploads JSON files and
\* spreadsheets and sets the status of cases; every awaited call resolves.
NextStats ==
    \/ onAuthStateChanged("c1")
    \/ handleJoinSession("c1", CodeB, FALSE)
    \/ sessionEffect("c1")
    \/ docSnapshot("c1")
    \/ participantsSnapshot("c1")
    \/ \E status \in Statuses : handleUpdate("c1", "id1", "estado", status)
    \/ \E f \in {OneRow, AzureRows} : handleJsonUpload("c1", f)
    \/ handleExcelUpload("c1", SheetFile(TRUE, TRUE, <<RawBlank, RawPending>>))
    \/ \E r \in BagToSet(net) : \E ids \in UNION {[1..n -> UUIDs] : n \in 0..MaxCases} :
          \/ FileLoaded(r, ids)
          \/ SheetLoaded(r, ids)
    \/ \E r \in BagToSet(net) :
          \/ GetDocDone(r, TRUE)
          \/ AddDocDone(r, TRUE)
          \/ UpdateDocDone(r, TRUE)

SpecStats == Init /\ [][NextStats]_vars

\* SpecRoute: requests to the route of the in-memory fallback store.
NextRoute ==
    \/ GET
    \/ \E body \in Bodies : \E tmp \in UNION {[1..n -> TempIds] : n \in 0..MaxCases} :
          POST(body, tmp)

SpecRoute == Init /\ [][NextRoute]_vars

\* ------------------------------------------------------------------- claims
\* The steps at which a call of leaveSessionCleanup reaches its end.
LeaveEnds(e) ==
    \/ e.op \in {"markOffline:ok", "markOffline:error"}
    \/ e.op \in {"handleLeaveSession", "handleLogout", "docSnapshot", "docError"} /\ e.arg \in {"wasOut", "wasIn"}

\* Everything of a tab's state but the loading flag.
Settled(st) == [st EXCEPT !.isLoadingSession = FALSE]

\* The step issues no awaited call.
NothingSent == \A q \in BagToSet(net') : CopiesIn(q, net') <= CopiesIn(q, net)

\* C4: leaving is idempotent.  Every call of leaveSessionCleanup that reaches
\* its end in a mounted tab leaves the tab in the one no-session state and
\* raises no error; a call made in a tab that is in that state already (a
\* second leave in a row, or a leave outside any session) changes nothing of it.
C4_LeaveIdempotent ==
    [][\A c \in Clients :
          (lastEvent'.c = c /\ LeaveEnds(lastEvent') /\ ui[c].mounted)
          => /\ NoSession(ui'[c])
             /\ lastEvent'.op # "docSnapshot" => lastEvent'.toast = NoToast
             /\ lastEvent'.arg = "wasOut" => ui'[c] = ui[c]]_vars

\* The second of two leaves in a row has reached its end.
C4_Witness ==
    /\ lastEvent.op \in {"markOffline:ok", "markOffline:error"}
    /\ lastEvent.arg = "wasOut"
    /\ ui[lastEvent.c].mounted

\* C6: when the mark-offline write of a leave rejects, the tab still ends in
\* the no-session state, and no error is raised.
C6_LeaveSurvivesFailedWrite ==
    \A c \in Clients :
       (lastEvent.c = c /\ lastEvent.op = "markOffline:error" /\ ui[c].mounted)
       => NoSession(ui[c]) /\ lastEvent.toast = NoToast

\* The mark-offline write of a tab that was in a session has rejected.
C6_Witness ==
    /\ lastEvent.op = "markOffline:error"
    /\ lastEvent.arg = "wasIn"
    /\ ui[lastEvent.c].mounted
    /\ \E i \in 1..Len(participantDocs) :
          participantDocs[i].email = Email(lastEvent.c) /\ participantDocs[i].online

\* C7: a join whose code names no session document reports "Sesión no
\* encontrada", changes nothing of the tab's state but the loading flag,
\* creates no participant entry, issues no call and starts no subscription.
C7_JoinUnknownCode ==
    [][\A c \in Clients :
          (lastEvent'.c = c /\ lastEvent'.op = "getDoc:absent")
          => /\ lastEvent'.toast = "Sesión no encontrada"
             /\ Settled(ui'[c]) = Settled(ui[c])
             /\ participantDocs' = participantDocs
             /\ sessions' = sessions
             /\ sub' = sub
             /\ NothingSent]_vars

\* A join has found no session document under its code.
C7_Witness ==
    /\ lastEvent.op = "getDoc:absent"
    /\ ui[lastEvent.c].mounted
    /\ ~ui[lastEvent.c].isLoadingSession

\* C9: when the setDoc of a create rejects, "Error al crear sesión" is
\* reported, the session code stays as it was (empty, in a tab that was in no
\* session), no participant entry is created, no call is issued and no
\* subscription is started.
C9_CreateFailure ==
    [][\A c \in Clients :
          (lastEvent'.c = c /\ lastEvent'.op = "setDoc:error")
          => /\ lastEvent'.toast = "Error al crear sesión"
             /\ Settled(ui'[c]) = Settled(ui[c])
             /\ participantDocs' = participantDocs
             /\ sessions' = sessions
             /\ sub' = sub
             /\ NothingSent]_vars

\* The setDoc of a create has rejected in a tab with no session code.
C9_Witness ==
    /\ lastEvent.op = "setDoc:error"
    /\ ui[lastEvent.c].mounted
    /\ ui[lastEvent.c].sessionCode = NoCode
    /\ sessions[CodeA] = NoDoc

\* No create or join of the tab is still running.
FlowsEnded(c) == \A r \in Pending(c) : r.op \notin {"setDoc", "getDoc", "addDoc"}

\* A join that found its session sets the viewer flag to the mode asked for.
JoinSetsRole ==
    \A c \in Clients :
       (lastEvent.c = c /\ lastEvent.op = "getDoc:ok" /\ ui[c].mounted)
       => LocalRole(ui[c]) = lastEvent.arg

\* C8: a join that found its session sets the local role to the one asked
\* for, and while a tab is in a session with no create or join still running,
\* the participant entry of that session it holds carries the role it shows.
C8_RoleMatches ==
    /\ JoinSetsRole
    /\ \A c \in Clients :
          (/\ ui[c].mounted /\ FlowsEnded(c)
           /\ ui[c].sessionCode # NoCode /\ ui[c].participantIdRef # NoPid
           /\ participantDocs[ui[c].participantIdRef].code = ui[c].sessionCode)
          => participantDocs[ui[c].participantIdRef].role = LocalRole(ui[c])

\* The steps at which a create or a join reaches its end.
FlowEnds(e) == e.op \in {"addDoc:ok", "addDoc:error", "setDoc:error", "getDoc:absent", "getDoc:error"}

\* C10: no partial session.  When a create or a join has reached its end and
\* the tab is in a session, the tab holds the handle of an online participant
\* entry of that session; and when a step of a create or a join has rejected,
\* the tab is in no session.
C10_NoPartialSession ==
    \A c \in Clients :
       (lastEvent.c = c /\ ui[c].mounted /\ FlowsEnded(c))
       => /\ (FlowEnds(lastEvent) /\ ui[c].sessionCode # NoCode)
             => /\ ui[c].participantIdRef # NoPid
                /\ participantDocs[ui[c].participantIdRef].online
                /\ participantDocs[ui[c].participantIdRef].code = ui[c].sessionCode
          /\ lastEvent.op \in {"addDoc:error", "setDoc:error", "getDoc:error"}
             => ui[c].sessionCode = NoCode

\* C5: when a leave has reached its end, all local session state is at its
\* default: no session code, no test cases, no participants, role editor, and
\* the process filter, the status filter and the viewer filter at "all".
C5_LeaveResetsAll ==
    \A c \in Clients :
       (lastEvent.c = c /\ LeaveEnds(lastEvent) /\ ui[c].mounted)
       => /\ NoSession(ui[c])
          /\ ui[c].filterProcess = "all"
          /\ ui[c].filterStatus = "all"

\* The calls a step issues.
Sent == {q \in BagToSet(net') : CopiesIn(q, net') > CopiesIn(q, net)}
\* The awaited calls that settle in this step.
Settling == {r \in BagToSet(net) : CopiesIn(r, net) > CopiesIn(r, net')}

\* C1: the status guard.  A call of handleUpdate that asks for Fallido on a
\* case lacking comentarios or evidencia is a no-op: no replace write is
\* issued, the tab's state is unchanged and a rejection is signalled; on a case
\* that has both, the write carrying the status Fallido is issued.
C1_StatusGuard ==
    [][\A c \in Clients :
          (lastEvent'.c = c /\ lastEvent'.op = "handleUpdate")
          => /\ lastEvent'.arg = "Fallido:lacking"
                => NothingSent /\ ui' = ui /\ lastEvent'.toast # NoToast
             /\ lastEvent'.arg = "Fallido:complete"
                => \E q \in Sent : /\ q.op = "updateDoc"
                                   /\ \E i \in 1..Len(q.cases) : q.cases[i].estado = "Fallido"]_vars

\* The operations that change the test-case list.
Mutations == {"handleUpdate", "handleDeleteTestCase", "handleClearData", "handleJsonUpload"}

\* C2: a tab that shows the viewer role is read-only.  No operation that
\* changes the list is taken by a tab showing the viewer role; every file
\* read and replace write in flight was asked for by a tab showing the editor
\* role; and the list of a session document changes only when such a replace
\* write resolves.
C2_ViewerReadOnly ==
    /\ [](\A r \in BagToSet(net) : r.op \in {"readFile", "updateDoc"} => r.role = "editor")
    /\ [][/\ lastEvent'.op \in Mutations => ~ui[lastEvent'.c].isViewerMode
          /\ \A d \in DocIds :
                (sessions[d].exists /\ sessions'[d].testCases # sessions[d].testCases)
                => lastEvent'.op = "updateDoc:ok"]_vars

\* A viewer is shown, with the cards of its view, a list an editor has written.
C2_Witness ==
    /\ ui["c2"].mounted /\ ui["c2"].isViewerMode /\ ~ui["c2"].isLoadingSession
    /\ ui["c2"].sessionCode = CodeB /\ sub["c2"].code = CodeB
    /\ ui["c2"].testCases # <<>>
    /\ ui["c2"].testCases # <<SeededCase>>
    /\ ui["c2"].testCases = sessions[CodeB].testCases
    /\ ~ui["c1"].isViewerMode /\ ui["c1"].sessionCode = CodeB

\* The tab's listeners are attached to a session document.
Subscribed(c) == ui[c].mounted /\ sub[c].code # NoCode
\* The tab's list is the list of the session document it listens to.
Synced(c) == sub[c].code # NoCode /\ ui[c].testCases = sessions[sub[c].code].testCases

\* C3: reconciliation converges.  A tab whose listener is attached to a
\* session document comes to hold the list of that document: whatever list a
\* write has left there, the tab holds it once the writes have stopped (the
\* writer's own tab as well), and it keeps it for as long as no write follows.
C3_Convergence ==
    /\ \A c \in Clients : Subscribed(c) ~> (Synced(c) \/ ~Subscribed(c))
    /\ [][\A c \in Clients :
            (Subscribed(c) /\ Synced(c) /\ sub'[c].code = sub[c].code /\ sessions' = sessions)
            => Synced(c)']_vars

\* Both tabs hold the list tab c1 has written with the status Fallido.
C3_Witness ==
    /\ lastEvent.op = "docSnapshot"
    /\ \A c \in Clients : Subscribed(c) /\ sub[c].code = CodeB /\ Synced(c)
    /\ sessions[CodeB].testCases # <<>>
    /\ sessions[CodeB].testCases[1].estado = "Fallido"
    /\ sessions[CodeB].testCases[1].updatedBy = Email("c1")

\* The local session status of a tab.
Unauthenticated(st) == ~st.mounted \/ st.user = Null
InSession(st) == st.mounted /\ st.sessionCode # NoCode

\* C11: the local session status moves only along Unauthenticated ->
\* Authenticated(noSession) -> InSession(role) -> Authenticated(noSession) or
\* Unauthenticated.  A tab InSession has an identity; while it stays InSession
\* its role and its session do not change; and it becomes Unauthenticated
\* only with no session state left.
C11_StateMachine ==
    [][\A c \in Clients :
          /\ InSession(ui'[c]) => ui'[c].user # Null /\ authUser'[c] # Null
          /\ (InSession(ui[c]) /\ InSession(ui'[c]))
             => /\ ui'[c].isViewerMode = ui[c].isViewerMode
                /\ ui'[c].sessionCode = ui[c].sessionCode
          /\ (~Unauthenticated(ui[c]) /\ Unauthenticated(ui'[c]))
             => NoSession(ui'[c])]_vars

\* handleLogout issues signOut only when its leaveSessionCleanup has reached
\* its end, with the state of the tab reset.
SignOutAfterLeave ==
    \A q \in Sent :
       q.op = "signOut"
       => /\ LeaveEnds(lastEvent') /\ lastEvent'.c = q.c
          /\ ui[q.c].mounted => NoSession(ui'[q.c])

\* C12: logout leaves first and clears the identity afterwards.  signOut is
\* issued only when the leave has reached its end (its mark-offline write
\* settled, with either outcome) and the state is reset; and when signOut
\* resolves the tab is unauthenticated and in no session.
C12_LogoutOrder ==
    [][/\ SignOutAfterLeave
       /\ \A c \in Clients :
             (lastEvent'.c = c /\ lastEvent'.op = "signOut:ok")
             => /\ authUser'[c] = Null
                /\ Unauthenticated(ui'[c])
                /\ NoSession(ui'[c])]_vars

\* The ids of a list are pairwise distinct.
DistinctIds(cases) ==
    \A i, j \in 1..Len(cases) : cases[i].id = cases[j].id => i = j

Appended(r) == IF r.op = "readFile" THEN r.file.rows ELSE nonEmptyRows(r.file.rows)

\* q.cases is the list r has captured followed by one new case per record.
Concatenates(r, q) ==
    LET old == r.cases
        raw == Appended(r)
    IN /\ q.op = "updateDoc" /\ q.c = r.c /\ q.code = r.code
       /\ Len(q.cases) = Len(old) + Len(raw)
       /\ SubSeq(q.cases, 1, Len(old)) = old
       /\ \A i \in 1..Len(raw) :
             LET tc == q.cases[Len(old) + i]
             IN /\ tc.id \in UUIDs
                /\ tc.estado = IF raw[i].estado = "" THEN "Pendiente" ELSE raw[i].estado
                /\ tc.proceso = raw[i].proceso
                /\ tc.comentarios = raw[i].comentarios
                /\ tc.evidencia = raw[i].evidencia

C15_IdleClosure ==
    Idle > IdleMinutes => \A c \in Clients : ~InSession(ui[c])

\* The participant entries of a session that are online.
OnlineEntries(code) ==
    {n \in 1..Len(participantDocs) :
        participantDocs[n].code = code /\ participantDocs[n].online}

\* The participants subscription of a tab has delivered the latest snapshot.
PartsDelivered(c) ==
    /\ sub[c].code # NoCode /\ ~sub[c].partsDue
    /\ ui[c].sessionCode = sub[c].code

\* C16: once the participants subscription of a tab in a session has
\* delivered the latest snapshot, the participants list of the tab holds
\* exactly the entries of that session with online = true, each once.
C16_OnlineParticipants ==
    \A c \in Clients :
       PartsDelivered(c)
       => /\ Range(ui[c].participants) = OnlineEntries(sub[c].code)
          /\ Len(ui[c].participants) = Cardinality(OnlineEntries(sub[c].code))

\* The positions of the list a tab holds whose case is failed, has a comment
\* that is not the empty text, has a comment with a character other than
\* white space.
FailedAt(c) == {i \in 1..Len(ui[c].testCases) : ui[c].testCases[i].estado = "Fallido"}
NonEmptyAt(c) == {i \in 1..Len(ui[c].testCases) : ui[c].testCases[i].comentarios # ""}
NonBlankAt(c) ==
    {i \in 1..Len(ui[c].testCases) : ui[c].testCases[i].comentarios \notin {"", " "}}

\* view is the sub-list of the list of tab c at the positions at, in list order.
SubListAt(view, c, at) ==
    /\ Len(view) = Cardinality(at)
    /\ \A k \in 1..Len(view) :
          view[k] = ui[c].testCases[CHOOSE i \in at : Cardinality({j \in at : j <= i}) = k]

\* C17 as stated: failedCases is the sub-list of the failed cases and
\* commentedCases the sub-list of the cases whose comments are not empty.
C17_ViewsAsStated ==
    \A c \in Clients :
       /\ SubListAt(failedCases(ui[c]), c, FailedAt(c))
       /\ SubListAt(commentedCases(ui[c]), c, NonEmptyAt(c))

\* C17, amended: in every reachable state failedCases is the sub-list of the
\* cases with status Fallido, and commentedCases the sub-list of the cases
\* whose comments hold a character other than white space, both in list order.
C17_ReportViews ==
    \A c \in Clients :
       /\ SubListAt(failedCases(ui[c]), c, FailedAt(c))
       /\ SubListAt(commentedCases(ui[c]), c, NonBlankAt(c))

\* A tab holds a failed case with a comment, followed by a case with neither.
C17_Witness ==
    /\ Len(ui["c1"].testCases) = 2
    /\ FailedAt("c1") = {1}
    /\ NonBlankAt("c1") = {1}

\* The session codes in use: the ids of the session documents that exist and
\* the codes of the tabs.
CodesInUse ==
    {d \in DocIds : sessions[d].exists}
       \cup ({ui[c].sessionCode : c \in Clients} \ {NoCode})

Digits == {"1","2","3","4","5","6","7","8","9"}

\* C18 as stated: every session code has six characters of the alphabet and
\* none of O, 0, I, 1.
C18_CodeAsStated ==
    \A code \in CodesInUse :
       /\ Len(code) = CodeLen
       /\ Range(code) \subseteq Range(Upper) \cup Digits
       /\ Range(code) \cap {"O", "0", "I", "1"} = {}

\* C18, amended: every session code has exactly six characters, each a
\* capital letter other than O or a digit other than 0; I and 1 may occur.
C18_CodeShape ==
    \A code \in CodesInUse :
       /\ Len(code) = CodeLen
       /\ Range(code) \subseteq Range(Upper) \cup Digits
       /\ Range(code) \cap {"O", "0"} = {}

\* A tab is in a session it has created under a code with I and 1.
C18_Witness ==
    /\ ui["c1"].sessionCode = CodeC
    /\ sessions[CodeC].exists /\ sessions[CodeC].owner = Email("c1")

\* The tab is in no session and holds neither cases nor participants.
LeftAndEmpty(st) ==
    st.sessionCode = NoCode /\ st.testCases = <<>> /\ st.participants = <<>>

\* C19: once leaving has reset the state of a tab, its list of cases and its
\* participants stay empty for as long as it is in no session: no callback
\* of a subscription of the session it has left fills them again.
C19_NoStaleCallback ==
    [][\A c \in Clients :
          (LeftAndEmpty(ui[c]) /\ ui'[c].sessionCode = NoCode)
          => LeftAndEmpty(ui'[c])]_vars

\* C20: a replace write that reaches the store leaves the session document
\* with exactly the list of that write, whatever an earlier write of another
\* editor had put there, and a snapshot is then due at every tab that
\* listens; the snapshot sets the list of the tab to the list of the
\* document.  So of two writes computed from the same list the later one
\* wins, and the edit of the earlier one is gone from the store and from
\* every tab unless the later list held it.
C20_LastWriteWins ==
    [][/\ \A r \in Settling :
             (r.op = "updateDoc" /\ lastEvent'.op = "updateDoc:ok")
             => /\ sessions'[r.code].testCases = r.cases
                /\ \A c \in Clients :
                      (sub[c].code = r.code /\ sessions[r.code].testCases # r.cases)
                      => sub'[c].docDue
       /\ \A c \in Clients :
             (lastEvent'.op = "docSnapshot" /\ lastEvent'.c = c /\ ui'[c].sessionCode # NoCode)
             => ui'[c].testCases = sessions[sub[c].code].testCases]_vars

\* Both editors have written from the list of two untouched cases: the write
\* of c1 with the evidence of the first case has reached the store, and the
\* write of c2, with the status of the second case and without that
\* evidence, is still on its way.
C20_Witness ==
    /\ Len(sessions[CodeB].testCases) = 2
    /\ sessions[CodeB].testCases[1].evidencia = "x"
    /\ sessions[CodeB].testCases[2].estado = "Pendiente"
    /\ \E q \in BagToSet(net) :
          /\ q.op = "updateDoc" /\ q.c = "c2" /\ Len(q.cases) = 2
          /\ q.cases[1].evidencia = ""
          /\ q.cases[2].estado = "Aprobado"

\* C21: right after a snapshot of an existing session document has been
\* delivered to a tab, the list of the tab is the list of the document, case
\* by case and in its order; nothing of the list the tab held is kept.
C21_SnapshotReplaces ==
    [][\A c \in Clients :
          (/\ lastEvent'.op = "docSnapshot" /\ lastEvent'.c = c
           /\ sub[c].code # NoCode /\ sessions[sub[c].code].exists)
          => /\ Len(ui'[c].testCases) = Len(sessions[sub[c].code].testCases)
             /\ \A i \in 1..Len(ui'[c].testCases) :
                   ui'[c].testCases[i] = sessions[sub[c].code].testCases[i]]_vars

\* A snapshot has just replaced the list of the viewer c2 by a list that the
\* editor has changed.
C21_Witness ==
    /\ lastEvent.op = "docSnapshot" /\ lastEvent.c = "c2"
    /\ ui["c2"].testCases = sessions[CodeB].testCases
    /\ ui["c2"].testCases # <<>>
    /\ ui["c2"].testCases # <<SeededCase>>

WriteRejected(r) ==
    /\ r.op = "updateDoc" /\ lastEvent'.op = "updateDoc:error" /\ lastEvent'.c = r.c
    /\ ui[r.c].sessionCode = r.code

\* When a replace write is rejected the sync error is shown, the session
\* document keeps its list and the tab stays in its session.
FailedWriteSurfaced ==
    \A r \in Settling :
       WriteRejected(r)
       => /\ lastEvent'.toast = "Error de Sincronización"
          /\ sessions' = sessions
          /\ ui'[r.c].sessionCode = r.code

DeadSubscription(c) ==
    /\ sub[c].code # NoCode /\ ui[c].sessionCode = sub[c].code
    /\ \/ sub[c].docDead
       \/ ~sessions[sub[c].code].exists /\ ~sub[c].docDue

\* Tab c is on its way out: its mark-offline write is awaited.
Leaving(c) == \E r \in Pending(c) : r.op = "markOffline"

\* This step is the callback that forces tab c out.
ForcedOut(c) ==
    /\ lastEvent'.c = c
    /\ \/ lastEvent'.op = "docError"
       \/ lastEvent'.op = "docSnapshot" /\ ~sessions[sub[c].code].exists

\* The awaited mark-offline write of a leave of tab c settles in this step.
LeaveSettles(c) ==
    \E r \in Settling : r.op = "markOffline" /\ r.cont = "leave" /\ r.c = c

\* C24: when the listener on the session document reports an error, or
\* delivers that the document is gone, the tab shows an error and leaves: it
\* is reset at once or awaits its mark-offline write, and when that write
\* settles (resolved or rejected) the tab holds no session code, no cases and
\* no participants; the effect that follows the reset detaches both
\* listeners; and a tab is never in a session whose document listener is dead
\* unless that leave is under way.
C24_ForcedOut ==
    [][\A c \in Clients :
          /\ ForcedOut(c)
             => /\ lastEvent'.toast \in {"Error de Sesión", "Error de Conexión"}
                /\ \/ LeftAndEmpty(ui'[c])
                   \/ \E q \in Sent : q.op = "markOffline" /\ q.c = c /\ q.cont = "leave"
          /\ LeaveSettles(c) => LeftAndEmpty(ui'[c])
          /\ (lastEvent'.op = "sessionEffect" /\ lastEvent'.c = c /\ LeftAndEmpty(ui[c]))
             => sub'[c] = NoSub
          /\ (DeadSubscription(c) => Leaving(c))']_vars

\* The participant entry with its online flag cleared.
Offline(entry) == [entry EXCEPT !.online = FALSE]

\* C25: a mark-offline write that settles creates no entry and changes no
\* entry but its own; when it resolves its entry is offline and otherwise as
\* before; on an entry that is offline already (a second call) or that no
\* longer exists the registry is left exactly as it was; and whatever the
\* outcome, no error is shown to the user.
C25_MarkOfflineIdempotent ==
    [][\A r \in Settling : r.op = "markOffline" =>
          /\ Len(participantDocs') = Len(participantDocs)
          /\ \A i \in DOMAIN participantDocs :
                i # r.pid => participantDocs'[i] = participantDocs[i]
          /\ participantDocs'[r.pid] \in {participantDocs[r.pid], Offline(participantDocs[r.pid])}
          /\ lastEvent'.op = "markOffline:ok"
             => /\ participantDocs[r.pid] # NoEntry
                /\ participantDocs'[r.pid] = Offline(participantDocs[r.pid])
          /\ (participantDocs[r.pid] = NoEntry \/ ~participantDocs[r.pid].online)
             => participantDocs' = participantDocs
          /\ lastEvent'.toast = NoToast]_vars

\* Two clicks on "Terminar sesión" started two writes for the entry of c1:
\* the first has reset the tab, and now the second has resolved as well.
C25_Witness ==
    /\ lastEvent.op = "markOffline:ok" /\ lastEvent.c = "c1" /\ lastEvent.arg = "wasOut"
    /\ Len(participantDocs) = 2 /\ participantDocs[2] = Offline(ParticipantDoc(CodeB, Email("c1"), "editor"))

\* The audit fields of a case.
Audit(tc) == <<tc.updatedBy, tc.updatedAt>>

\* The audit fields of the cases at the positions in at are the same in the
\* list a handler read and in the list it writes.
SameAudit(old, new, at) == \A i \in at : Audit(new[i]) = Audit(old[i])

\* C26: the list a call of handleUpdate on case id1 writes has the cases of
\* the list the tab holds, and the audit fields of every case but id1 as they
\* were.  On id1 they are set to the user of the tab and the reading of the
\* clock when the field is estado and the change is accepted (Fallido on a
\* case that has comentarios and evidencia); they are as they were when the
\* field is another one, and when the change is one the status guard rejects.
C26_AuditTrail ==
    [][\A q \in Sent :
          (q.op = "updateDoc" /\ lastEvent'.op = "handleUpdate" /\ lastEvent'.c = q.c)
          => LET old == ui[q.c].testCases
                 target == {i \in 1..Len(old) : old[i].id = "id1"}
             IN /\ Len(q.cases) = Len(old)
                /\ SameAudit(old, q.cases, (1..Len(old)) \ target)
                /\ lastEvent'.arg = "Fallido:complete"
                   => \A i \in target : Audit(q.cases[i]) = <<ui[q.c].user, now + 1>>
                /\ lastEvent'.arg \notin {"Fallido:complete", "Fallido:lacking"}
                   => SameAudit(old, q.cases, target)
                /\ lastEvent'.arg = "Fallido:lacking"
                   => SameAudit(old, q.cases, target)]_vars

\* The participant entries tab c has registered that are online.
OnlineOf(c) ==
    {i \in DOMAIN participantDocs :
        participantDocs[i].email = Email(c) /\ participantDocs[i].online}

\* C27: with every awaited call resolving, a tab that has left (it shows no
\* session code and no leave of it is still awaiting its write) has no online
\* entry in the registry and holds no participant handle, whatever was in
\* flight when it left.
C27_LeftMeansOffline ==
    \A c \in Clients :
       (ui[c].mounted /\ ui[c].sessionCode = NoCode /\ ~Leaving(c))
       => OnlineOf(c) = {} /\ ui[c].participantIdRef = NoPid

C29_StatsPartition ==
    \A c \in Clients :
       LET s == stats(ui[c])
       IN /\ s.total = Len(ui[c].testCases)
          /\ s.passed + s.failed + s.na + s.pending = s.total
          /\ s.completed + s.pending = s.total

\* C30: a POST whose body does not parse or is not an array is answered with
\* status 400 and leaves the stored list as it was; a POST that changes the
\* stored list was given an array; and a GET answers with the stored list and
\* leaves it as it was, so after a rejected POST it returns the list of before.
C30_BadBodyRejected ==
    [][/\ (lastEvent'.op = "POST" /\ lastEvent'.arg \in {"unparseable", "notArray"})
          => routeResponse'.status = 400 /\ routeTestCases' = routeTestCases
       /\ (lastEvent'.op = "POST" /\ routeTestCases' # routeTestCases)
          => lastEvent'.arg = "array"
       /\ lastEvent'.op = "GET"
          => routeResponse' = Response(200, routeTestCases) /\ routeTestCases' = routeTestCases]_vars

\* The store holds a list, and a POST of a value that is not an array has
\* just been answered with 400.
C30_Witness ==
    /\ lastEvent.op = "POST" /\ lastEvent.arg = "notArray"
    /\ routeResponse.status = 400 /\ routeTestCases # <<>>

====
